---- MODULE Spec2Model ----
(***************************************************************************)
(* Yonder CSV -> YNAB import worker (src/src/lib.rs, src/src/config.rs).   *)
(*                                                                         *)
(* Text is a sequence of one-character strings.  Numbers wider than the    *)
(* model checker's machine integers (f64 significands, i64 amounts, epoch  *)
(* milliseconds) are little-endian digit sequences: bits, limbs of base    *)
(* 32768 for binary arithmetic, limbs of base 10000 for decimal.           *)
(***************************************************************************)
EXTENDS Integers, Sequences, FiniteSets, TLC

(***************************************************************************)
(* Text and digit-sequence helpers.                                        *)
(***************************************************************************)
DigitChars == <<"0", "1", "2", "3", "4", "5", "6", "7", "8", "9">>

IsDigit(c) == \E i \in 1..10 : DigitChars[i] = c

DigitVal(c) == (CHOOSE i \in 1..10 : DigitChars[i] = c) - 1

AllDigits(t) == \A i \in 1..Len(t) : IsDigit(t[i])

DigitText(ds) == [i \in 1..Len(ds) |-> DigitChars[ds[i] + 1]]

Reverse(s) == [i \in 1..Len(s) |-> s[Len(s) + 1 - i]]

Zeros(n) == [i \in 1..n |-> 0]

RECURSIVE Pow(_, _)
Pow(b, n) == IF n = 0 THEN 1 ELSE b * Pow(b, n - 1)

\* Little-endian digits of the natural k in the given base (<<>> is zero).
RECURSIVE NatDigits(_, _)
NatDigits(k, base) ==
    IF k = 0 THEN <<>> ELSE <<k % base>> \o NatDigits(k \div base, base)

\* b * c + k on little-endian digit sequences, c and k machine-sized.
RECURSIVE MulAdd(_, _, _, _)
MulAdd(b, c, k, base) ==
    IF b = <<>> THEN NatDigits(k, base)
    ELSE LET t == Head(b) * c + k
         IN  <<t % base>> \o MulAdd(Tail(b), c, t \div base, base)

\* The natural written by the most-significant-first digits ds of base
\* `from`, as little-endian digits of base `to`.
RECURSIVE Convert(_, _, _)
Convert(ds, from, to) ==
    IF ds = <<>> THEN <<>>
    ELSE MulAdd(Convert(SubSeq(ds, 1, Len(ds) - 1), from, to), from, ds[Len(ds)], to)

\* b * m^n, four factors of m at a time so that every product stays
\* machine-sized.
RECURSIVE MulPow(_, _, _, _)
MulPow(b, m, n, base) ==
    IF n = 0 THEN b
    ELSE IF n >= 4 THEN MulPow(MulAdd(b, Pow(m, 4), 0, base), m, n - 4, base)
    ELSE MulAdd(b, Pow(m, n), 0, base)

\* Quotient and remainder of the little-endian digits b by the machine-sized
\* d, the most significant digit first; r is the remainder carried in.
RECURSIVE DivSmall(_, _, _, _)
DivSmall(b, d, base, r) ==
    IF b = <<>> THEN [q |-> <<>>, r |-> r]
    ELSE LET cur == r * base + b[Len(b)]
             lo  == DivSmall(SubSeq(b, 1, Len(b) - 1), d, base, cur % d)
         IN  [q |-> lo.q \o <<cur \div d>>, r |-> lo.r]

\* Drop the most significant zeros of a little-endian digit sequence.
Canon(b) ==
    LET nz == {i \in 1..Len(b) : b[i] # 0}
    IN  IF nz = {} THEN <<>>
        ELSE SubSeq(b, 1, CHOOSE i \in nz : \A j \in nz : j <= i)

\* The digits of base 10 or 2 held by limbs of base 10^w or 2^w: digit i of
\* the result is digit (i-1) % w of limb (i-1) \div w.
Spread(limbs, small, w) ==
    Canon([i \in 1..(w * Len(limbs)) |->
              (limbs[((i - 1) \div w) + 1] \div Pow(small, (i - 1) % w)) % small])

\* The limbs of base small^w that hold the little-endian digits ds of base
\* `small`.
RECURSIVE LimbAt(_, _, _, _, _)
LimbAt(ds, small, w, j, t) ==
    IF t = w \/ w * (j - 1) + t + 1 > Len(ds) THEN 0
    ELSE ds[w * (j - 1) + t + 1] + small * LimbAt(ds, small, w, j, t + 1)

Gather(ds, small, w) ==
    [j \in 1..((Len(ds) + w - 1) \div w) |-> LimbAt(ds, small, w, j, 0)]

\* Decimal text of a small non-negative integer (Display of usize).
UsizeText(n) == IF n = 0 THEN <<"0">> ELSE DigitText(Reverse(NatDigits(n, 10)))

(***************************************************************************)
(* f64 (IEEE-754 binary64, round to nearest even).  A finite non-zero      *)
(* value is m * 2^e with m a 53-bit significand (little-endian bits, top   *)
(* bit 1).  The exponent range is not modelled: no input of the model      *)
(* comes near the subnormal or overflow thresholds.                        *)
(***************************************************************************)
F64Nan == [cls |-> "nan", neg |-> FALSE, m |-> <<>>, e |-> 0]

F64Inf(neg) == [cls |-> "inf", neg |-> neg, m |-> <<>>, e |-> 0]

F64Zero(neg) == [cls |-> "zero", neg |-> neg, m |-> <<>>, e |-> 0]

\* bits + 1.
IncBits(b) ==
    IF \A i \in 1..Len(b) : b[i] = 1 THEN Zeros(Len(b)) \o <<1>>
    ELSE LET z == CHOOSE i \in 1..Len(b) : b[i] = 0 /\ \A j \in 1..(i - 1) : b[j] = 1
         IN  [i \in 1..Len(b) |-> IF i < z THEN 0 ELSE IF i = z THEN 1 ELSE b[i]]

\* Round the bits P (value P * 2^e, plus a sticky remainder below the last
\* bit) to 53 significant bits, ties to even.
Round53(P, e, sticky, neg) ==
    LET L == Len(P) IN
    IF L = 0 THEN F64Zero(neg)
    ELSE IF L <= 53
    THEN [cls |-> "fin", neg |-> neg, m |-> Zeros(53 - L) \o P, e |-> e - (53 - L)]
    ELSE LET s     == L - 53
             kept  == SubSeq(P, s + 1, L)
             guard == P[s] = 1
             rest  == sticky \/ \E i \in 1..(s - 1) : P[i] = 1
             up    == guard /\ (rest \/ kept[1] = 1)
             r     == IF up THEN IncBits(kept) ELSE kept
         IN  IF Len(r) = 54
             THEN [cls |-> "fin", neg |-> neg, m |-> SubSeq(r, 2, 54), e |-> e + s + 1]
             ELSE [cls |-> "fin", neg |-> neg, m |-> r, e |-> e + s]

\* floor(X / 10^s) for binary limbs X, four decimal places at a time, and
\* whether anything was cut off.
RECURSIVE DivPow10(_, _, _)
DivPow10(X, s, sticky) ==
    IF s = 0 THEN [q |-> X, sticky |-> sticky]
    ELSE LET c == IF s >= 4 THEN 4 ELSE s
             d == DivSmall(X, Pow(10, c), 32768, 0)
         IN  DivPow10(d.q, s - c, sticky \/ d.r # 0)

\* The f64 nearest to (the decimal digits ds, most significant first) / 10^s:
\* for s > 0 the quotient is taken with k extra binary places, enough to
\* leave more than 54 significant bits to round.
DecToF64(neg, ds, s) ==
    LET N0 == Canon(Convert(ds, 10, 32768))
        k  == 56 + 4 * s
    IN  IF N0 = <<>> THEN F64Zero(neg)
        ELSE IF s <= 0
        THEN Round53(Spread(MulPow(N0, 10, -s, 32768), 2, 15), 0, FALSE, neg)
        ELSE LET d == DivPow10(MulPow(N0, 2, k, 32768), s, FALSE)
             IN  Round53(Spread(d.q, 2, 15), -k, d.sticky, neg)

\* First index of a character of cs in t, or 0.
IndexOf(t, cs) ==
    IF \E i \in 1..Len(t) : t[i] \in cs
    THEN CHOOSE i \in 1..Len(t) : t[i] \in cs /\ \A j \in 1..(i - 1) : t[j] \notin cs
    ELSE 0

Lower(c) ==
    CASE c = "I" -> "i" [] c = "N" -> "n" [] c = "F" -> "f" [] c = "T" -> "t"
      [] c = "Y" -> "y" [] c = "A" -> "a" [] OTHER -> c

\* <f64 as FromStr>::from_str: [sign] (inf | infinity | nan | decimal), the
\* decimal being digits [. digits] [e [sign] digits] with a digit somewhere.
\* Exponents are read up to two digits.
ParseF64(t) ==
    LET signed == Len(t) > 0 /\ t[1] \in {"+", "-"}
        neg    == Len(t) > 0 /\ t[1] = "-"
        body   == IF signed THEN Tail(t) ELSE t
        low    == [i \in 1..Len(body) |-> Lower(body[i])]
        ePos   == IndexOf(body, {"e", "E"})
        mant   == IF ePos = 0 THEN body ELSE SubSeq(body, 1, ePos - 1)
        expo   == IF ePos = 0 THEN <<>> ELSE SubSeq(body, ePos + 1, Len(body))
        eSign  == Len(expo) > 0 /\ expo[1] \in {"+", "-"}
        eDigs  == IF eSign THEN Tail(expo) ELSE expo
        eOk    == ePos = 0 \/ (eDigs # <<>> /\ AllDigits(eDigs) /\ Len(eDigs) <= 2)
        eMag   == IF ePos = 0 \/ ~eOk THEN 0
                  ELSE IF Len(eDigs) = 1 THEN DigitVal(eDigs[1])
                  ELSE 10 * DigitVal(eDigs[1]) + DigitVal(eDigs[2])
        eVal   == IF eSign /\ expo[1] = "-" THEN -eMag ELSE eMag
        dot    == IndexOf(mant, {"."})
        ip     == IF dot = 0 THEN mant ELSE SubSeq(mant, 1, dot - 1)
        fp     == IF dot = 0 THEN <<>> ELSE SubSeq(mant, dot + 1, Len(mant))
        ds     == [i \in 1..(Len(ip) + Len(fp)) |->
                      DigitVal(IF i <= Len(ip) THEN ip[i] ELSE fp[i - Len(ip)])]
    IN  IF low = <<"n", "a", "n">> THEN [ok |-> TRUE, val |-> F64Nan]
        ELSE IF low \in {<<"i", "n", "f">>, <<"i", "n", "f", "i", "n", "i", "t", "y">>}
        THEN [ok |-> TRUE, val |-> F64Inf(neg)]
        ELSE IF AllDigits(ip) /\ AllDigits(fp) /\ Len(ip) + Len(fp) >= 1 /\ eOk
        THEN [ok |-> TRUE, val |-> DecToF64(neg, ds, Len(fp) - eVal)]
        ELSE [ok |-> FALSE, val |-> F64Nan]

\* Unary minus on f64.
F64Neg(x) == IF x.cls = "nan" THEN x ELSE [x EXCEPT !.neg = ~x.neg]

\* x * c for a small positive integer constant c (exactly representable).
F64MulConst(x, c) ==
    IF x.cls = "fin"
    THEN Round53(Spread(MulAdd(Gather(x.m, 2, 15), c, 0, 32768), 2, 15), x.e, FALSE, x.neg)
    ELSE x

\* `x as i64`: truncation toward zero, saturating at the i64 limits; NaN is 0.
\* An i64 is a sign and the little-endian bits of its magnitude.
F64AsI64(x) ==
    IF x.cls \in {"nan", "zero"} THEN [neg |-> FALSE, mag |-> <<>>]
    ELSE IF x.cls = "inf"
    THEN [neg |-> x.neg, mag |-> IF x.neg THEN Zeros(63) \o <<1>> ELSE [i \in 1..63 |-> 1]]
    ELSE LET mag == IF x.e >= 0 THEN Zeros(x.e) \o x.m
                    ELSE IF -x.e >= 53 THEN <<>>
                    ELSE SubSeq(x.m, 1 - x.e, 53)
         IN  IF Len(mag) >= 64
             THEN [neg |-> x.neg,
                   mag |-> IF x.neg THEN Zeros(63) \o <<1>> ELSE [i \in 1..63 |-> 1]]
             ELSE [neg |-> x.neg /\ mag # <<>>, mag |-> mag]

(***************************************************************************)
(* Display of f64 (`{}`): the shortest decimal digits that parse back to   *)
(* the same value, written positionally, never in exponent form.           *)
(***************************************************************************)
\* The exact decimal expansion of a finite non-zero x: its digits (most
\* significant first, no leading zero) and the number k of them that stand
\* after the decimal point (x = digits / 10^k).
F64Exact(x) ==
    LET dm == Convert(Reverse(Gather(x.m, 2, 15)), 32768, 10000)
        z  == IF x.e >= 0 THEN MulPow(dm, 2, x.e, 10000) ELSE MulPow(dm, 5, -x.e, 10000)
    IN  [ds |-> Reverse(Spread(z, 10, 4)), k |-> IF x.e >= 0 THEN 0 ELSE -x.e]

\* The digits ds (most significant first) rounded to their first d digits,
\* half to even: the digits kept (one more on carry out) and the number of
\* digits dropped.
RoundDigits(ds, d) ==
    IF Len(ds) <= d THEN [ds |-> ds, dropped |-> 0]
    ELSE LET kept == SubSeq(ds, 1, d)
             nxt  == ds[d + 1]
             rest == \E i \in (d + 2)..Len(ds) : ds[i] # 0
             up   == nxt > 5 \/ (nxt = 5 /\ (rest \/ kept[d] % 2 = 1))
             r    == IF up THEN Reverse(MulAdd(Reverse(kept), 1, 1, 10)) ELSE kept
         IN  [ds |-> r, dropped |-> Len(ds) - d]

\* The shortest digits that round-trip: [ds, k] with x = ds / 10^k, k possibly
\* negative.
RECURSIVE Shortest(_, _, _)
Shortest(x, ex, d) ==
    LET c == RoundDigits(ex.ds, d)
        k == ex.k - c.dropped
    IN  IF d >= 17 \/ DecToF64(x.neg, c.ds, k) = x
        THEN [ds |-> c.ds, k |-> k]
        ELSE Shortest(x, ex, d + 1)

RECURSIVE StripTrailingZeros(_)
StripTrailingZeros(sh) ==
    IF Len(sh.ds) > 1 /\ sh.ds[Len(sh.ds)] = 0
    THEN StripTrailingZeros([ds |-> SubSeq(sh.ds, 1, Len(sh.ds) - 1), k |-> sh.k - 1])
    ELSE sh

F64Display(x) ==
    LET sign == IF x.neg THEN <<"-">> ELSE <<>> IN
    IF x.cls = "nan" THEN <<"N", "a", "N">>
    ELSE IF x.cls = "inf" THEN sign \o <<"i", "n", "f">>
    ELSE IF x.cls = "zero" THEN sign \o <<"0">>
    ELSE LET sh == StripTrailingZeros(Shortest(x, F64Exact(x), 1))
             n  == Len(sh.ds)
             t  == DigitText(sh.ds)
         IN  sign \o
             (IF sh.k <= 0 THEN t \o DigitText(Zeros(-sh.k))
              ELSE IF sh.k >= n THEN <<"0", ".">> \o DigitText(Zeros(sh.k - n)) \o t
              ELSE SubSeq(t, 1, n - sh.k) \o <<".">> \o SubSeq(t, n - sh.k + 1, n))

(***************************************************************************)
(* chrono::NaiveDateTime: FromStr, and_utc(), timestamp_millis(),          *)
(* date_naive().  The text form read is the one the export writes:         *)
(* YYYY-MM-DDTHH:MM:SS with an optional fraction of one to nine digits.    *)
(***************************************************************************)
\* The number written by the digit characters t[from..to], or -1.
RECURSIVE NumAt(_, _, _)
NumAt(t, from, to) ==
    IF to < from THEN 0
    ELSE IF to > Len(t) \/ ~IsDigit(t[to]) THEN -1
    ELSE LET hi == NumAt(t, from, to - 1)
         IN  IF hi < 0 THEN -1 ELSE 10 * hi + DigitVal(t[to])

IsLeapYear(y) == (y % 4 = 0 /\ y % 100 # 0) \/ y % 400 = 0

DaysInMonth(y, mo) ==
    IF mo = 2 THEN (IF IsLeapYear(y) THEN 29 ELSE 28)
    ELSE IF mo \in {4, 6, 9, 11} THEN 30 ELSE 31

\* Days from 1970-01-01 to the civil date y-mo-d (proleptic Gregorian).
DaysFromCivil(y, mo, d) ==
    LET yy  == IF mo <= 2 THEN y - 1 ELSE y
        era == yy \div 400
        yoe == yy - era * 400
        doy == (153 * (IF mo > 2 THEN mo - 3 ELSE mo + 9) + 2) \div 5 + d - 1
        doe == yoe * 365 + yoe \div 4 - yoe \div 100 + doy
    IN  era * 146097 + doe - 719468

ParseNaiveDateTime(t) ==
    LET y    == NumAt(t, 1, 4)
        mo   == NumAt(t, 6, 7)
        d    == NumAt(t, 9, 10)
        h    == NumAt(t, 12, 13)
        mi   == NumAt(t, 15, 16)
        sec  == NumAt(t, 18, 19)
        frac == IF Len(t) > 20 THEN SubSeq(t, 21, Len(t)) ELSE <<>>
        shape == /\ Len(t) >= 19
                 /\ t[5] = "-" /\ t[8] = "-" /\ t[11] = "T" /\ t[14] = ":" /\ t[17] = ":"
                 /\ (Len(t) > 19 => t[20] = "." /\ Len(frac) \in 1..9 /\ AllDigits(frac))
        range == /\ y >= 0 /\ mo \in 1..12 /\ d >= 1 /\ d <= DaysInMonth(y, mo)
                 /\ h \in 0..23 /\ mi \in 0..59 /\ sec \in 0..59
    IN  IF shape /\ range
        THEN [ok |-> TRUE,
              val |-> [date  |-> <<y, mo, d>>,
                       secs  |-> DaysFromCivil(y, mo, d) * 86400 + h * 3600 + mi * 60 + sec,
                       nanos |-> IF frac = <<>> THEN 0
                                 ELSE NumAt(frac, 1, Len(frac)) * Pow(10, 9 - Len(frac))]]
        ELSE [ok |-> FALSE, val |-> [date |-> <<0, 0, 0>>, secs |-> 0, nanos |-> 0]]

\* and_utc().timestamp_millis(): seconds since the epoch * 1000 plus the
\* whole milliseconds of the sub-second part, as an i64 written by a sign and
\* little-endian decimal digits.
timestamp_millis(dt) ==
    LET ms == dt.nanos \div 1000000 IN
    IF dt.secs >= 0
    THEN [neg |-> FALSE, mag |-> MulAdd(NatDigits(dt.secs, 10), 1000, ms, 10)]
    ELSE IF ms = 0
    THEN [neg |-> TRUE, mag |-> MulAdd(NatDigits(-dt.secs, 10), 1000, 0, 10)]
    ELSE [neg |-> TRUE, mag |-> MulAdd(NatDigits(-dt.secs - 1, 10), 1000, 1000 - ms, 10)]

\* Display of an i64 given by sign and decimal digits.
I64Text(v) ==
    IF v.mag = <<>> THEN <<"0">>
    ELSE (IF v.neg THEN <<"-">> ELSE <<>>) \o DigitText(Reverse(v.mag))

DebitText == <<"D", "e", "b", "i", "t">>

CreditText == <<"C", "r", "e", "d", "i", "t">>

(***************************************************************************)
(* The inputs of the model: cell texts of the three parsed columns.        *)
(***************************************************************************)
\* Largest amount, in pence, of the two-decimal amount cells 0.00 .. MaxPence/100.
MaxPence == 205

\* Most data records of a generated CSV file.
MaxRows == 2

Pad2(n) == DigitText(<<n \div 10, n % 10>>)

\* The export's way of writing n pence: pounds, a point, two digits.
PenceCell(n) == UsizeText(n \div 100) \o <<".">> \o Pad2(n % 100)

EmptyText == <<>>

\* The amount of the repository's yonder.csv, and cells the export would not
\* write but the decoder is handed all the same: a sign, other precisions, non-finite and non-numeric texts, and
\* integers of 19 and 20 digits.
ExtraAmountCells ==
    { <<"3", ".", "0", "0">>, <<"-", "3", ".", "0", "0">>, <<"-", "0", ".", "0", "0">>,
      <<"3">>, <<"3", ".", "0">>, <<"0", ".", "0", "0", "0", "4">>,
      <<"N", "a", "N">>, <<"i", "n", "f">>, <<"a", "b", "c">>, EmptyText,
      <<"1">> \o DigitText(Zeros(18)), <<"1">> \o DigitText(Zeros(19)) }

AmountCells == {PenceCell(n) : n \in 0..MaxPence} \cup ExtraAmountCells

DateTimeCell(y, mo, d, h, mi, sec, frac) ==
    UsizeText(y) \o <<"-">> \o Pad2(mo) \o <<"-">> \o Pad2(d) \o <<"T">>
        \o Pad2(h) \o <<":">> \o Pad2(mi) \o <<":">> \o Pad2(sec)
        \o (IF frac = <<>> THEN <<>> ELSE <<".">> \o DigitText(frac))

\* 2026-01-01T10:34:50.211697, the row of the repository's yonder.csv test.
SampleTime == DateTimeCell(2026, 1, 1, 10, 34, 50, <<2, 1, 1, 6, 9, 7>>)

\* The same millisecond, other microseconds.
SameMilliTime == DateTimeCell(2026, 1, 1, 10, 34, 50, <<2, 1, 1, 9, 0, 0>>)

NextMilliTime == DateTimeCell(2026, 1, 1, 10, 34, 50, <<2, 1, 2, 6, 9, 7>>)

TimeCells ==
    { SampleTime, SameMilliTime, NextMilliTime,
      DateTimeCell(2026, 1, 1, 10, 34, 50, <<>>),
      DateTimeCell(1969, 12, 31, 23, 59, 59, <<5>>),
      DateTimeCell(2026, 2, 30, 10, 34, 50, <<>>),
      <<"n", "/", "a">> }

KindCells == {DebitText, CreditText, <<"d", "e", "b", "i", "t">>, EmptyText}

\* f64::from_str on a cell, tabulated over the model's amount cells.
F64FromStrTable == [t \in AmountCells |-> ParseF64(t)]

F64FromStr(t) == F64FromStrTable[t]

\* The f64 values the amount cells parse to.
AmountValues == {F64FromStrTable[t].val : t \in {u \in AmountCells : F64FromStrTable[u].ok}}

\* Display of an amount, tabulated over those values.
F64DisplayTable == [v \in AmountValues |-> F64Display(v)]

F64DisplayOf(v) == F64DisplayTable[v]

(***************************************************************************)
(* The CSV decoder: csv::Reader::from_reader(..).into_deserialize() into   *)
(* YonderTransaction.  A CSV is its header record (column names) and its   *)
(* data records (sequences of cell texts).                                 *)
(***************************************************************************)
\* The serde renames of YonderTransaction's fields.
YonderColumns ==
    <<"Date/Time of transaction", "Description", "Amount (GBP)",
      "Amount (in Charged Currency)", "Currency", "Category", "Debit or Credit",
      "Country">>

\* Deserialize of the unit-variant enum YonderTransactionKind.
ParseKind(t) ==
    IF t = DebitText THEN [ok |-> TRUE, val |-> "Debit"]
    ELSE IF t = CreditText THEN [ok |-> TRUE, val |-> "Credit"]
    ELSE [ok |-> FALSE, val |-> "Debit"]

\* Position of the column `name` in the header, or 0.
ColumnOf(header, name) ==
    IF \E i \in 1..Len(header) : header[i] = name
    THEN CHOOSE i \in 1..Len(header) :
            header[i] = name /\ \A j \in 1..(i - 1) : header[j] # name
    ELSE 0

HeaderComplete(header) ==
    \A i \in 1..Len(YonderColumns) : ColumnOf(header, YonderColumns[i]) # 0

\* The struct from its fields, each parsed from its cell.
YonderTransactionOf(dt, description, ag, ac, currency, category, kd, country) ==
    IF dt.ok /\ ag.ok /\ ac.ok /\ kd.ok
    THEN [ok |-> TRUE,
          val |-> [date_time      |-> dt.val,
                   description    |-> description,
                   amount_gbp     |-> ag.val,
                   amount_charged |-> ac.val,
                   currency       |-> currency,
                   category       |-> category,
                   kind           |-> kd.val,
                   country        |-> country]]
    ELSE [ok |-> FALSE]

\* One data record read under the header: the reader rejects a record whose
\* field count differs from the header's, the struct needs every column, and
\* the timestamp, both amounts and the direction must parse.
DeserializeRecord(header, rec) ==
    IF Len(rec) # Len(header) \/ ~HeaderComplete(header) THEN [ok |-> FALSE]
    ELSE LET cell(i) == rec[ColumnOf(header, YonderColumns[i])]
         IN  YonderTransactionOf(ParseNaiveDateTime(cell(1)), cell(2), F64FromStr(cell(3)),
                                 F64FromStr(cell(4)), cell(5), cell(6), ParseKind(cell(7)),
                                 cell(8))

\* collect::<Result<Vec<_>, _>>(): every record in order, or the first error.
Collect(rs) ==
    IF \E i \in 1..Len(rs) : ~rs[i].ok
    THEN [ok |-> FALSE, rows |-> <<>>]
    ELSE [ok |-> TRUE, rows |-> [i \in 1..Len(rs) |-> rs[i].val]]

\* The header is only consulted when a data record is deserialized.
DecodeCsv(csv) ==
    Collect([i \in 1..Len(csv.records) |-> DeserializeRecord(csv.header, csv.records[i])])

(***************************************************************************)
(* impl From<YonderTransaction> for NewTransaction.                        *)
(***************************************************************************)
\* Variant that forgets the negation of a Debit.
AmountMilliunitsUnsigned(kind, amount_gbp) == F64AsI64(F64MulConst(amount_gbp, 1000))

\* (match kind { Debit => -amount_gbp, Credit => amount_gbp } * 1000.0) as i64
AmountMilliunits(kind, amount_gbp) ==
    F64AsI64(F64MulConst(IF kind = "Debit" THEN F64Neg(amount_gbp) ELSE amount_gbp, 1000))

\* format!("TG:{}:{}", amount_gbp, date_time.and_utc().timestamp_millis())
ImportIdText(amount_gbp, date_time) ==
    <<"T", "G", ":">> \o F64DisplayOf(amount_gbp) \o <<":">>
        \o I64Text(timestamp_millis(date_time))

\* The longest text the ledger's import-id type takes.
MaxImportIdLen == 36

\* .parse() into the generated import-id type, which .unwrap() relies on.
ImportIdParses(t) == Len(t) <= MaxImportIdLen

\* The amount, tabulated over the model's amount values.
AmountMilliunitsTable ==
    [kv \in {"Debit", "Credit"} \X AmountValues |-> AmountMilliunits(kv[1], kv[2])]

AmountMilliunitsOf(kind, amount_gbp) == AmountMilliunitsTable[<<kind, amount_gbp>>]

NewTransactionFrom(value) ==
    [account_id      |-> "None",
     amount          |-> AmountMilliunitsOf(value.kind, value.amount_gbp),
     approved        |-> "None",
     category_id     |-> "None",
     cleared         |-> "cleared",
     date            |-> value.date_time.date,
     flag_color      |-> "None",
     import_id       |-> ImportIdText(value.amount_gbp, value.date_time),
     memo            |-> "None",
     payee_id        |-> "None",
     payee_name      |-> value.description,
     subtransactions |-> <<>>]

\* The unwrap in From panics when the formatted id is not a valid import id.
FromPanics(value) == ~ImportIdParses(ImportIdText(value.amount_gbp, value.date_time))

(***************************************************************************)
(* DocumentResult and its Display; the texts the adapters render.          *)
(***************************************************************************)
RECURSIVE JoinText(_)
JoinText(t) == IF t = <<>> THEN "" ELSE Head(t) \o JoinText(Tail(t))

\* Variant that prints the two counts in the other order.
DocumentResultTextSwapped(res) ==
    "Imported new transactions: " \o JoinText(UsizeText(res.duplicates))
        \o "\nSkipped duplicate transactions: " \o JoinText(UsizeText(res.imported))

\* write!(f, "Imported new transactions: {}\nSkipped duplicate transactions: {}", ..)
DocumentResultText(res) ==
    "Imported new transactions: " \o JoinText(UsizeText(res.imported))
        \o "\nSkipped duplicate transactions: " \o JoinText(UsizeText(res.duplicates))

\* Variant that counts the created ids as duplicates and the other way round.
DocumentResultOfSwapped(data) ==
    [imported |-> Len(data.duplicate_import_ids), duplicates |-> Len(data.transaction_ids)]

\* Ok(DocumentResult { imported: transaction_ids.len(), duplicates:
\* duplicate_import_ids.len() })
DocumentResultOf(data) ==
    [imported |-> Len(data.transaction_ids), duplicates |-> Len(data.duplicate_import_ids)]

\* Variant that turns a failed call into an empty success.
ImportOutcomeLenient(reply) ==
    [ok |-> TRUE, counts |-> <<[imported |-> Len(reply.data.transaction_ids),
                               duplicates |-> Len(reply.data.duplicate_import_ids)]>>,
     err |-> ""]

\* The tail of import_yonder_csv_to_ynab: map_err(..)? on the reply, then Ok.
ImportOutcome(reply) ==
    IF reply.ok THEN [ok |-> TRUE, counts |-> <<DocumentResultOf(reply.data)>>, err |-> ""]
    ELSE [ok |-> FALSE, counts |-> <<>>, err |-> reply.error]

ErrOutcome(msg) == [ok |-> FALSE, counts |-> <<>>, err |-> msg]

(***************************************************************************)
(* Configuration (config.rs) and requests.                                 *)
(***************************************************************************)
WebhookSecret == "s3cret"

\* Config values of a deployment; an Option is a sequence of length <= 1
\* (lib.rs reads tg_api_key and webhook_api_key through as_deref() as
\* Options).  ok = FALSE is an environment init_config rejects.
Configs ==
    { [ok |-> TRUE, tg_api_key |-> t, webhook_api_key |-> k,
       ynab_budget_id |-> "last-used", ynab_account_id |-> "account-uuid"] :
          <<t, k>> \in { <<(<<"tg-key">>), (<<WebhookSecret>>)>>,
                         <<(<<"tg-key">>), (<<>>)>>,
                         <<(<<>>), (<<WebhookSecret>>)>> } }
    \cup { [ok |-> FALSE, tg_api_key |-> <<>>, webhook_api_key |-> <<>>,
            ynab_budget_id |-> "", ynab_account_id |-> ""] }

\* Query strings of the requests: key/value pairs in order.
Queries ==
    { <<>>,
      << <<"api_key", WebhookSecret>> >>,
      << <<"api_key", "S3CRET">> >>,
      << <<"v", "1">>, <<"api_key", WebhookSecret>> >>,
      << <<"api_key", "guess">>, <<"api_key", WebhookSecret>> >> }

Requests ==
    { [path |-> "/import", query |-> q, document |-> FALSE] : q \in Queries }
    \cup { [path |-> "/", query |-> <<>>, document |-> d] : d \in BOOLEAN }

\* Variant that takes the last api_key pair instead of the first.
ApiKeyOfLast(query) ==
    LET hits == {i \in 1..Len(query) : query[i][1] = "api_key"}
    IN  IF hits = {} THEN <<>>
        ELSE << query[CHOOSE i \in hits : \A j \in hits : i >= j][2] >>

\* query_pairs().find_map(|(k, v)| (k == "api_key").then(|| v.into_owned()))
ApiKeyOf(query) ==
    LET hits == {i \in 1..Len(query) : query[i][1] = "api_key"}
    IN  IF hits = {} THEN <<>>
        ELSE << query[CHOOSE i \in hits : \A j \in hits : i <= j][2] >>

\* The two checks of on_webhook_import: "" when the request may go on, else
\* the text of the 401 response.
WebhookDenial(conf, query) ==
    IF conf.webhook_api_key = <<>> THEN "Webhook API key is not set"
    ELSE IF ApiKeyOf(query) # conf.webhook_api_key THEN "Invalid API key"
    ELSE ""

(***************************************************************************)
(* CSV files handed to the pipeline.                                       *)
(***************************************************************************)
\* A header with the account-currency amount column under another name.
HeaderWithoutAmount ==
    [i \in 1..Len(YonderColumns) |-> IF i = 3 THEN "Amount" ELSE YonderColumns[i]]

Headers == {YonderColumns, HeaderWithoutAmount}

\* A data record in the column order of YonderColumns.
Record(time, description, amount, kind) ==
    <<time, description, amount, amount, <<"G", "B", "P">>, <<"T">>, kind, <<"G", "B", "R">>>>

SampleRecord == Record(SampleTime, <<"T", "F", "L">>, PenceCell(300), DebitText)

CreditRecord == Record(NextMilliTime, <<"R", "e", "f">>, PenceCell(201), CreditText)

\* Same amount and millisecond as SampleRecord, another transaction.
SiblingRecord == Record(SameMilliTime, <<"B", "u", "s">>, PenceCell(300), DebitText)

BadAmountRecord == Record(SampleTime, <<"T", "F", "L">>, <<"a", "b", "c">>, DebitText)

HugeAmountRecord ==
    Record(SampleTime, <<"T", "F", "L">>, <<"1">> \o DigitText(Zeros(19)), DebitText)

RecordChoices ==
    {SampleRecord, CreditRecord, SiblingRecord, BadAmountRecord, HugeAmountRecord}

RECURSIVE SeqsUpTo(_, _)
SeqsUpTo(S, n) ==
    IF n = 0 THEN {<<>>}
    ELSE LET shorter == SeqsUpTo(S, n - 1)
         IN  shorter \cup {Append(q, r) : q \in {u \in shorter : Len(u) = n - 1}, r \in S}

\* Every file of up to MaxRows data records under either header.
CsvFiles ==
    {[header |-> h, records |-> rs] : h \in Headers, rs \in SeqsUpTo(RecordChoices, MaxRows)}

\* The files of the concurrent specification.
ConcFiles ==
    { [header |-> YonderColumns, records |-> <<SampleRecord, CreditRecord>>],
      [header |-> YonderColumns, records |-> <<SiblingRecord>>],
      [header |-> YonderColumns, records |-> <<CreditRecord, BadAmountRecord>>],
      [header |-> YonderColumns, records |-> <<HugeAmountRecord>>] }

(***************************************************************************)
(* The remote ledger, as the specification describes it: it stores the     *)
(* batch atomically and skips a transaction whose import id it already     *)
(* holds or that an earlier transaction of the same batch carries.         *)
(***************************************************************************)
IsDuplicate(stored, txs, i) ==
    \/ txs[i].import_id \in stored
    \/ \E j \in 1..(i - 1) : txs[j].import_id = txs[i].import_id

RECURSIVE Pick(_, _, _, _)
Pick(stored, txs, i, dup) ==
    IF i > Len(txs) THEN <<>>
    ELSE (IF IsDuplicate(stored, txs, i) = dup THEN <<txs[i].import_id>> ELSE <<>>)
            \o Pick(stored, txs, i + 1, dup)

\* The data of a successful bulk-create response; a created transaction is
\* named by its import id.
LedgerResponse(stored, txs) ==
    [transaction_ids      |-> Pick(stored, txs, 1, FALSE),
     duplicate_import_ids |-> Pick(stored, txs, 1, TRUE)]

LedgerStore(stored, txs) == stored \cup {txs[i].import_id : i \in 1..Len(txs)}

LedgerErrorText == "Error Response: status: 400 Bad Request"

(***************************************************************************)
(* The mapping stage of import_yonder_csv_to_ynab.                         *)
(***************************************************************************)
\* Variant that submits the rows in reverse order.
MapBatchReversed(rows, account_id) ==
    [i \in 1..Len(rows) |->
        [NewTransactionFrom(rows[Len(rows) + 1 - i]) EXCEPT !.account_id = account_id]]

\* .map(NewTransaction::from).map(|mut t| { t.account_id = Some(..); t })
MapBatch(rows, account_id) ==
    [i \in 1..Len(rows) |-> [NewTransactionFrom(rows[i]) EXCEPT !.account_id = account_id]]

BatchPanics(rows) == \E i \in 1..Len(rows) : FromPanics(rows[i])

DecodeErrorText == "failed to deserialize as Yonder transactions CSV"

(***************************************************************************)
(* State.                                                                  *)
(***************************************************************************)
VARIABLES
    config,       \* the Config of the deployment
    ynab_ledger,  \* import ids the ledger holds
    tracked,      \* history: a file some invocation has imported successfully
    w_pc,         \* where each invocation of fetch stands
    w_req,        \* its request
    w_csv,        \* csv_bytes / yonder_csv
    w_yonder,     \* yonder_transactions
    w_ynab,       \* ynab_transactions
    w_sent,       \* the create_transaction calls it has issued
    w_reply,      \* ynab_response, or the error of the call
    w_later,      \* history: the ledger served its call after `tracked` was set to its file
    w_result,     \* what import_yonder_csv_to_ynab / on_telegram_document returned
    w_resp,       \* the HTTP response or the chat message it produced
    m_stage,      \* single-row mapping: stage
    m_row,        \* single-row mapping: the data record
    m_val,        \* single-row mapping: the YonderTransaction
    m_tx          \* single-row mapping: the NewTransaction

pipeVars ==
    <<config, ynab_ledger, tracked, w_pc, w_req, w_csv, w_yonder, w_ynab, w_sent,
      w_reply, w_later, w_result, w_resp>>

mapVars == <<m_stage, m_row, m_val, m_tx>>

vars == <<pipeVars, mapVars>>

Procs == {"w1", "w2"}

NoRequest == [path |-> "", query |-> <<>>, document |-> FALSE]

DefaultConfig ==
    [ok |-> TRUE, tg_api_key |-> <<"tg-key">>, webhook_api_key |-> <<WebhookSecret>>,
     ynab_budget_id |-> "last-used", ynab_account_id |-> "account-uuid"]

InitWorkers ==
    /\ ynab_ledger = {}
    /\ tracked = <<>>
    /\ w_pc = [p \in Procs |-> "idle"]
    /\ w_req = [p \in Procs |-> NoRequest]
    /\ w_csv = [p \in Procs |-> <<>>]
    /\ w_yonder = [p \in Procs |-> <<>>]
    /\ w_ynab = [p \in Procs |-> <<>>]
    /\ w_sent = [p \in Procs |-> <<>>]
    /\ w_reply = [p \in Procs |-> <<>>]
    /\ w_later = [p \in Procs |-> FALSE]
    /\ w_result = [p \in Procs |-> <<>>]
    /\ w_resp = [p \in Procs |-> <<>>]

InitNoRow ==
    /\ m_stage = "off"
    /\ m_row = <<>>
    /\ m_val = <<>>
    /\ m_tx = <<>>

Init ==
    /\ config \in Configs
    /\ InitWorkers
    /\ InitNoRow

InitConc ==
    /\ config = DefaultConfig
    /\ InitWorkers
    /\ InitNoRow

\* The rows of the single-row specification.
MapRows ==
    {Record(t, <<"T", "F", "L">>, a, k) : t \in TimeCells, a \in AmountCells, k \in KindCells}

InitMap ==
    /\ config = DefaultConfig
    /\ InitWorkers
    /\ m_stage = "input"
    /\ m_row \in MapRows
    /\ m_val = <<>>
    /\ m_tx = <<>>

(***************************************************************************)
(* fetch and the two adapters.                                             *)
(***************************************************************************)
RuntimeError(msg) == [channel |-> "runtime", status |-> 500, body |-> msg]

HttpError(msg, code) == [channel |-> "http", status |-> code, body |-> msg]

\* Response::from_json(&json!({"message": ..})); the body is the JSON object.
HttpJson(msg) == [channel |-> "http", status |-> 200, body |-> [message |-> msg]]

ChatMessage(msg) == [channel |-> "chat", status |-> 0, body |-> msg]

\* fetch: build the config, then dispatch on the path.
Fetch(p, reqs) ==
    /\ w_pc[p] = "idle"
    /\ \E req \in reqs :
        /\ w_req' = [w_req EXCEPT ![p] = req]
        /\ IF ~config.ok
           THEN /\ w_pc' = [w_pc EXCEPT ![p] = "done"]
                /\ w_resp' = [w_resp EXCEPT ![p] = <<RuntimeError("config")>>]
           ELSE /\ w_pc' = [w_pc EXCEPT ![p] =
                              IF req.path = "/import" THEN "webhook" ELSE "telegram"]
                /\ UNCHANGED w_resp
    /\ UNCHANGED <<config, ynab_ledger, tracked, w_csv, w_yonder, w_ynab, w_sent,
                   w_reply, w_later, w_result, mapVars>>

\* on_webhook_import up to req.bytes(): the api_key checks.
WebhookAuth(p) ==
    /\ w_pc[p] = "webhook"
    /\ LET denial == WebhookDenial(config, w_req[p].query)
       IN  IF denial # ""
           THEN /\ w_resp' = [w_resp EXCEPT ![p] = <<HttpError(denial, 401)>>]
                /\ w_pc' = [w_pc EXCEPT ![p] = "done"]
           ELSE /\ w_pc' = [w_pc EXCEPT ![p] = "body"]
                /\ UNCHANGED w_resp
    /\ UNCHANGED <<config, ynab_ledger, tracked, w_req, w_csv, w_yonder, w_ynab,
                   w_sent, w_reply, w_later, w_result, mapVars>>

\* let csv_bytes = req.bytes().await?; then the pipeline is called.
WebhookBody(p, files) ==
    /\ w_pc[p] = "body"
    /\ \E f \in files : w_csv' = [w_csv EXCEPT ![p] = <<f>>]
    /\ w_pc' = [w_pc EXCEPT ![p] = "import"]
    /\ UNCHANGED <<config, ynab_ledger, tracked, w_req, w_yonder, w_ynab, w_sent,
                   w_reply, w_later, w_result, w_resp, mapVars>>

\* on_telegram_message: a message without a document gets the hint.
TelegramMessage(p) ==
    /\ w_pc[p] = "telegram"
    /\ IF w_req[p].document
       THEN /\ w_pc' = [w_pc EXCEPT ![p] = "document"]
            /\ UNCHANGED w_resp
       ELSE /\ w_pc' = [w_pc EXCEPT ![p] = "done"]
            /\ w_resp' = [w_resp EXCEPT ![p] =
                            <<ChatMessage("Send Yonder CSV export as a document")>>]
    /\ UNCHANGED <<config, ynab_ledger, tracked, w_req, w_csv, w_yonder, w_ynab,
                   w_sent, w_reply, w_later, w_result, mapVars>>

\* on_telegram_document with the file downloaded: the pipeline is called.
TelegramDownload(p, files) ==
    /\ w_pc[p] = "document"
    /\ config.tg_api_key # <<>>
    /\ \E f \in files : w_csv' = [w_csv EXCEPT ![p] = <<f>>]
    /\ w_pc' = [w_pc EXCEPT ![p] = "import"]
    /\ UNCHANGED <<config, ynab_ledger, tracked, w_req, w_yonder, w_ynab, w_sent,
                   w_reply, w_later, w_result, w_resp, mapVars>>

\* on_telegram_document returning early: no bot key, get_file or the download
\* failing, or a file without a path.
TelegramNoFile(p) ==
    /\ w_pc[p] = "document"
    /\ \E msg \in IF config.tg_api_key = <<>> THEN {"Telegram API key is not set"}
                  ELSE {"no file path found", "error sending request"} :
          w_result' = [w_result EXCEPT ![p] = <<ErrOutcome(msg)>>]
    /\ w_pc' = [w_pc EXCEPT ![p] = "returned"]
    /\ UNCHANGED <<config, ynab_ledger, tracked, w_req, w_csv, w_yonder, w_ynab,
                   w_sent, w_reply, w_later, w_resp, mapVars>>

(***************************************************************************)
(* import_yonder_csv_to_ynab.                                              *)
(***************************************************************************)
\* csv::Reader .. .collect().wrap_err(..)?
Decode(p) ==
    /\ w_pc[p] = "import"
    /\ \E decoded \in {DecodeCsv(w_csv[p][1])} :
           IF decoded.ok
           THEN /\ w_yonder' = [w_yonder EXCEPT ![p] = <<decoded.rows>>]
                /\ w_pc' = [w_pc EXCEPT ![p] = "decoded"]
                /\ UNCHANGED w_result
           ELSE /\ w_result' = [w_result EXCEPT ![p] = <<ErrOutcome(DecodeErrorText)>>]
                /\ w_pc' = [w_pc EXCEPT ![p] = "returned"]
                /\ UNCHANGED w_yonder
    /\ UNCHANGED <<config, ynab_ledger, tracked, w_req, w_csv, w_ynab, w_sent,
                   w_reply, w_later, w_resp, mapVars>>

\* The mapping of the whole vector; an unwrap that fails aborts the invocation.
Map(p) ==
    /\ w_pc[p] = "decoded"
    /\ IF BatchPanics(w_yonder[p][1])
       THEN /\ w_pc' = [w_pc EXCEPT ![p] = "panicked"]
            /\ UNCHANGED w_ynab
       ELSE /\ w_ynab' = [w_ynab EXCEPT ![p] =
                            <<MapBatch(w_yonder[p][1], config.ynab_account_id)>>]
            /\ w_pc' = [w_pc EXCEPT ![p] = "mapped"]
    /\ UNCHANGED <<config, ynab_ledger, tracked, w_req, w_csv, w_yonder, w_sent,
                   w_reply, w_later, w_result, w_resp, mapVars>>

\* ynab_client.create_transaction(budget, wrapper): the request leaves.
CreateTransaction(p) ==
    /\ w_pc[p] = "mapped"
    /\ w_sent' = [w_sent EXCEPT ![p] =
                    Append(@, [budget_id |-> config.ynab_budget_id,
                               transactions |-> w_ynab[p][1]])]
    /\ w_pc' = [w_pc EXCEPT ![p] = "awaiting"]
    /\ UNCHANGED <<config, ynab_ledger, tracked, w_req, w_csv, w_yonder, w_ynab,
                   w_reply, w_later, w_result, w_resp, mapVars>>

\* The ledger stores the batch and answers.
LedgerCreate(p) ==
    /\ w_pc[p] = "awaiting"
    /\ LET txs == w_sent[p][Len(w_sent[p])].transactions
       IN  /\ w_reply' = [w_reply EXCEPT ![p] =
                            <<[ok |-> TRUE, data |-> LedgerResponse(ynab_ledger, txs),
                               error |-> ""]>>]
           /\ ynab_ledger' = LedgerStore(ynab_ledger, txs)
    /\ w_later' = [w_later EXCEPT ![p] = (tracked = w_csv[p])]
    /\ w_pc' = [w_pc EXCEPT ![p] = "replied"]
    /\ UNCHANGED <<config, tracked, w_req, w_csv, w_yonder, w_ynab, w_sent, w_result,
                   w_resp, mapVars>>

\* The call fails: transport error or non-success response; nothing is stored.
LedgerFail(p) ==
    /\ w_pc[p] = "awaiting"
    /\ w_reply' = [w_reply EXCEPT ![p] =
                     <<[ok |-> FALSE,
                        data |-> [transaction_ids |-> <<>>, duplicate_import_ids |-> <<>>],
                        error |-> LedgerErrorText]>>]
    /\ w_pc' = [w_pc EXCEPT ![p] = "replied"]
    /\ UNCHANGED <<config, ynab_ledger, tracked, w_req, w_csv, w_yonder, w_ynab,
                   w_sent, w_later, w_result, w_resp, mapVars>>

\* .await.map_err(..)?; Ok(DocumentResult { .. })
ImportReturn(p) ==
    /\ w_pc[p] = "replied"
    /\ w_result' = [w_result EXCEPT ![p] = <<ImportOutcome(w_reply[p][1])>>]
    /\ w_pc' = [w_pc EXCEPT ![p] = "returned"]
    /\ UNCHANGED <<config, ynab_ledger, tracked, w_req, w_csv, w_yonder, w_ynab,
                   w_sent, w_reply, w_later, w_resp, mapVars>>

\* The match in on_webhook_import.
WebhookRespond(p) ==
    /\ w_pc[p] = "returned"
    /\ w_req[p].path = "/import"
    /\ LET res == w_result[p][1]
       IN  w_resp' = [w_resp EXCEPT ![p] =
                        IF res.ok THEN <<HttpJson(DocumentResultText(res.counts[1]))>>
                        ELSE <<HttpError(res.err, 500)>>]
    /\ w_pc' = [w_pc EXCEPT ![p] = "done"]
    /\ UNCHANGED <<config, ynab_ledger, tracked, w_req, w_csv, w_yonder, w_ynab,
                   w_sent, w_reply, w_later, w_result, mapVars>>

\* The match in on_telegram_message.
TelegramRespond(p) ==
    /\ w_pc[p] = "returned"
    /\ w_req[p].path # "/import"
    /\ LET res == w_result[p][1]
       IN  w_resp' = [w_resp EXCEPT ![p] =
                        IF res.ok THEN <<ChatMessage(DocumentResultText(res.counts[1]))>>
                        ELSE <<ChatMessage("Failed to import transactions:\n\n" \o res.err)>>]
    /\ w_pc' = [w_pc EXCEPT ![p] = "done"]
    /\ UNCHANGED <<config, ynab_ledger, tracked, w_req, w_csv, w_yonder, w_ynab,
                   w_sent, w_reply, w_later, w_result, mapVars>>

\* The invocation is over (response delivered, or aborted by a panic).
Finish(p) ==
    /\ w_pc[p] \in {"done", "panicked"}
    /\ w_pc' = [w_pc EXCEPT ![p] = "idle"]
    /\ w_req' = [w_req EXCEPT ![p] = NoRequest]
    /\ w_csv' = [w_csv EXCEPT ![p] = <<>>]
    /\ w_yonder' = [w_yonder EXCEPT ![p] = <<>>]
    /\ w_ynab' = [w_ynab EXCEPT ![p] = <<>>]
    /\ w_sent' = [w_sent EXCEPT ![p] = <<>>]
    /\ w_reply' = [w_reply EXCEPT ![p] = <<>>]
    /\ w_later' = [w_later EXCEPT ![p] = FALSE]
    /\ w_result' = [w_result EXCEPT ![p] = <<>>]
    /\ w_resp' = [w_resp EXCEPT ![p] = <<>>]
    /\ UNCHANGED <<config, ynab_ledger, tracked, mapVars>>

\* History only: remember a file whose import has succeeded.
Track(p) ==
    /\ tracked = <<>>
    /\ w_pc[p] \in {"replied", "returned", "done"}
    /\ w_reply[p] # <<>>
    /\ w_reply[p][1].ok
    /\ tracked' = w_csv[p]
    /\ UNCHANGED <<config, ynab_ledger, w_pc, w_req, w_csv, w_yonder, w_ynab, w_sent,
                   w_reply, w_later, w_result, w_resp, mapVars>>

Step(p, reqs, files) ==
    \/ Fetch(p, reqs)
    \/ WebhookAuth(p)
    \/ WebhookBody(p, files)
    \/ TelegramMessage(p)
    \/ TelegramDownload(p, files)
    \/ TelegramNoFile(p)
    \/ Decode(p)
    \/ Map(p)
    \/ CreateTransaction(p)
    \/ LedgerCreate(p)
    \/ LedgerFail(p)
    \/ ImportReturn(p)
    \/ WebhookRespond(p)
    \/ TelegramRespond(p)
    \/ Finish(p)

\* One invocation at a time.
Next == Step("w1", Requests, CsvFiles)

Spec == Init /\ [][Next]_vars

\* Two invocations interleaved, through either adapter.
ConcRequests ==
    { [path |-> "/import", query |-> << <<"api_key", WebhookSecret>> >>, document |-> FALSE],
      [path |-> "/", query |-> <<>>, document |-> TRUE] }

NextConc == \E p \in Procs : Step(p, ConcRequests, ConcFiles) \/ Track(p)

SpecConc == InitConc /\ [][NextConc]_vars

(***************************************************************************)
(* One record through the decoder and From.                                *)
(***************************************************************************)
MapDeserialize ==
    /\ m_stage = "input"
    /\ \E r \in {DeserializeRecord(YonderColumns, m_row)} :
           IF r.ok
           THEN /\ m_val' = <<r.val>>
                /\ m_stage' = "decoded"
           ELSE /\ m_stage' = "rejected"
                /\ UNCHANGED m_val
    /\ UNCHANGED <<m_row, m_tx, pipeVars>>

MapConvert ==
    /\ m_stage = "decoded"
    /\ IF FromPanics(m_val[1])
       THEN /\ m_stage' = "panicked"
            /\ UNCHANGED m_tx
       ELSE /\ m_tx' = <<NewTransactionFrom(m_val[1])>>
            /\ m_stage' = "mapped"
    /\ UNCHANGED <<m_row, m_val, pipeVars>>

NextMap == MapDeserialize \/ MapConvert

SpecMap == InitMap /\ [][NextMap]_vars

(***************************************************************************)
(* Properties.                                                             *)
(***************************************************************************)
I64IsZero(v) == \A i \in 1..Len(v.mag) : v.mag[i] = 0

I64IsNegative(v) == v.neg /\ ~I64IsZero(v)

I64IsPositive(v) == ~v.neg /\ ~I64IsZero(v)

\* v is the integer n, for 0 <= n.
I64Is(v, neg, n) == Canon(v.mag) = NatDigits(n, 2) /\ (n = 0 \/ v.neg = neg)

\* x >= y for positive finite or infinite x and positive finite y.
F64AtLeast(x, y) ==
    \/ x.cls = "inf"
    \/ /\ x.cls = "fin"
       /\ \/ x.e > y.e
          \/ /\ x.e = y.e
             /\ ~\E i \in 1..53 : x.m[i] < y.m[i] /\ \A j \in (i + 1)..53 : x.m[j] = y.m[j]

Milli == ParseF64(<<"0", ".", "0", "0", "1">>).val

PenceOf(t) == CHOOSE n \in 0..MaxPence : PenceCell(n) = t

IsPenceCell(t) == \E n \in 0..MaxPence : PenceCell(n) = t

Numeral(n) == <<"0", "1", "2", "3", "4", "5", "6", "7", "8", "9">>[n + 1]

BodyText(resp) == IF resp.channel = "http" /\ resp.status = 200 THEN resp.body.message
                  ELSE resp.body

\* C1: when the bulk-create call has failed, the pipeline returns a failure
\* without counts, the adapter answers with a failure (HTTP 500 with the
\* error, or the chat's failure message) and the ledger holds nothing of the
\* batch; whatever the pipeline returns is either a success with both counts
\* or a failure with none.
C1_BatchAtomicity ==
    \A p \in Procs :
        /\ w_result[p] # <<>> =>
              \/ w_result[p][1].ok /\ Len(w_result[p][1].counts) = 1
              \/ ~w_result[p][1].ok /\ w_result[p][1].counts = <<>>
        /\ (w_reply[p] # <<>> /\ ~w_reply[p][1].ok) =>
              /\ w_result[p] # <<>> =>
                    /\ ~w_result[p][1].ok
                    /\ w_result[p][1].counts = <<>>
                    /\ w_result[p][1].err = LedgerErrorText
              /\ w_resp[p] # <<>> =>
                    IF w_req[p].path = "/import"
                    THEN w_resp[p][1] = HttpError(LedgerErrorText, 500)
                    ELSE w_resp[p][1] =
                            ChatMessage("Failed to import transactions:\n\n" \o LedgerErrorText)

C1_Witness ==
    \E p \in Procs :
        /\ w_reply[p] # <<>> /\ ~w_reply[p][1].ok
        /\ w_resp[p] # <<>> /\ w_resp[p][1].status = 500
        /\ Len(w_sent[p][1].transactions) = 2

MissingColumn(csv) ==
    \E i \in 1..Len(YonderColumns) :
        \A j \in 1..Len(csv.header) : csv.header[j] # YonderColumns[i]

BadRecord(csv) ==
    \E i \in 1..Len(csv.records) : ~DeserializeRecord(YonderColumns, csv.records[i]).ok

\* C2: once the decoder has run on a file whose header lacks a column or
\* that has a record that does not parse, no bulk-create call is issued and
\* the pipeline returns a failure without counts.
C2_DecodeFailureInvalidatesBatch ==
    \A p \in Procs :
        (/\ w_csv[p] # <<>>
         /\ w_pc[p] # "import"
         /\ MissingColumn(w_csv[p][1]) \/ BadRecord(w_csv[p][1])) =>
            /\ w_sent[p] = <<>>
            /\ w_result[p] # <<>>
            /\ ~w_result[p][1].ok

\* The values of the api_key pairs of a query, in order.
RECURSIVE ApiKeyValues(_)
ApiKeyValues(query) ==
    IF query = <<>> THEN <<>>
    ELSE (IF Head(query)[1] = "api_key" THEN <<Head(query)[2]>> ELSE <<>>)
            \o ApiKeyValues(Tail(query))

Unauthorized(p) ==
    /\ w_req[p].path = "/import"
    /\ \/ config.webhook_api_key = <<>>
       \/ ApiKeyValues(w_req[p].query) = <<>>
       \/ ApiKeyValues(w_req[p].query)[1] # config.webhook_api_key[1]

\* C3: a request to /import whose api_key is absent or differs from the
\* configured secret is answered 401 once the handler has checked it; its
\* body is never read, nothing is decoded and no bulk-create call is issued.
C3_AuthGate ==
    \A p \in Procs :
        (w_pc[p] \notin {"idle", "webhook"} /\ config.ok /\ Unauthorized(p)) =>
            /\ w_pc[p] = "done"
            /\ w_resp[p] # <<>>
            /\ w_resp[p][1].channel = "http"
            /\ w_resp[p][1].status = 401
            /\ w_csv[p] = <<>>
            /\ w_yonder[p] = <<>>
            /\ w_sent[p] = <<>>
            /\ w_result[p] = <<>>

C3_Witness ==
    \E p \in Procs :
        /\ w_pc[p] = "done"
        /\ Len(w_req[p].query) = 2
        /\ Unauthorized(p)
        /\ w_resp[p] = <<HttpError("Invalid API key", 401)>>

\* C4 as stated: every decoded row maps to an amount <= 0 for a Debit and
\* >= 0 for a Credit, and to 0 only when the source amount is 0.
C4_SignOfEveryAcceptedRow ==
    m_stage = "mapped" =>
        /\ m_val[1].kind = "Debit" => ~I64IsPositive(m_tx[1].amount)
        /\ m_val[1].kind = "Credit" => ~I64IsNegative(m_tx[1].amount)
        /\ I64IsZero(m_tx[1].amount) => m_val[1].amount_gbp.cls = "zero"

\* C4: every decoded row whose source amount is a number without a minus
\* sign maps to an amount <= 0 for a Debit and >= 0 for a Credit, and the
\* amount is not 0 when the source amount is at least 0.001.
C4_SignOfNonNegativeAmounts ==
    (/\ m_stage = "mapped"
     /\ m_val[1].amount_gbp.cls # "nan"
     /\ ~m_val[1].amount_gbp.neg) =>
        /\ m_val[1].kind = "Debit" => ~I64IsPositive(m_tx[1].amount)
        /\ m_val[1].kind = "Credit" => ~I64IsNegative(m_tx[1].amount)
        /\ F64AtLeast(m_val[1].amount_gbp, Milli) => ~I64IsZero(m_tx[1].amount)

C4_Witness ==
    /\ m_stage = "mapped"
    /\ m_row[3] = PenceCell(105)
    /\ m_val[1].kind = "Debit"
    /\ I64Is(m_tx[1].amount, TRUE, 1050)

\* C5: a decoded row whose amount is written with two fractional digits maps
\* to exactly its pence times 10, negative for a Debit.
C5_ScaleLossless ==
    (m_stage = "mapped" /\ IsPenceCell(m_row[3])) =>
        I64Is(m_tx[1].amount, m_val[1].kind = "Debit", 10 * PenceOf(m_row[3]))

\* C6: the import id of every decoded row is shorter than 36 characters (and
\* so the conversion never fails on it).
C6_ImportIdShort ==
    /\ m_stage # "panicked"
    /\ m_stage \in {"decoded", "mapped"} =>
          Len(ImportIdText(m_val[1].amount_gbp, m_val[1].date_time)) < 36

PeerRecords == {SampleRecord, SiblingRecord, CreditRecord}

PeerValues == {DeserializeRecord(YonderColumns, r).val : r \in PeerRecords}

PeerImportId == [v \in PeerValues |-> ImportIdText(v.amount_gbp, v.date_time)]

\* C7: a decoded row and any other row that differs from it in the amount or
\* in the timestamp, down to the microsecond, get different import ids.
C7_ImportIdUnique ==
    m_stage = "mapped" =>
        \A v \in PeerValues :
            (v.amount_gbp # m_val[1].amount_gbp \/ v.date_time # m_val[1].date_time) =>
                PeerImportId[v] # m_tx[1].import_id

\* C8 as stated: after a successful bulk-create call the channel carries
\* "Imported transactions: N\nSkipped duplicates: M".
C8_SummaryTextAsStated ==
    \A p \in Procs :
        (w_reply[p] # <<>> /\ w_reply[p][1].ok /\ w_resp[p] # <<>>) =>
            BodyText(w_resp[p][1]) =
                "Imported transactions: "
                    \o Numeral(Len(w_reply[p][1].data.transaction_ids))
                    \o "\nSkipped duplicates: "
                    \o Numeral(Len(w_reply[p][1].data.duplicate_import_ids))

\* C8: after a successful bulk-create call the result counts the created ids
\* as imported and the duplicate import ids as duplicates, and the channel
\* carries "Imported new transactions: N\nSkipped duplicate transactions: M"
\* (as the chat message, or as the message of the HTTP 200 JSON body).
C8_ResultSummary ==
    \A p \in Procs :
        (w_reply[p] # <<>> /\ w_reply[p][1].ok) =>
            /\ w_result[p] # <<>> =>
                  /\ w_result[p][1].ok
                  /\ w_result[p][1].counts[1].imported =
                        Len(w_reply[p][1].data.transaction_ids)
                  /\ w_result[p][1].counts[1].duplicates =
                        Len(w_reply[p][1].data.duplicate_import_ids)
            /\ w_resp[p] # <<>> =>
                  BodyText(w_resp[p][1]) =
                      "Imported new transactions: "
                          \o Numeral(Len(w_reply[p][1].data.transaction_ids))
                          \o "\nSkipped duplicate transactions: "
                          \o Numeral(Len(w_reply[p][1].data.duplicate_import_ids))

C8_Witness ==
    \E p \in Procs :
        /\ w_reply[p] # <<>>
        /\ Len(w_reply[p][1].data.transaction_ids) = 1
        /\ Len(w_reply[p][1].data.duplicate_import_ids) = 1
        /\ w_resp[p] # <<>>
        /\ BodyText(w_resp[p][1]) =
              "Imported new transactions: 1\nSkipped duplicate transactions: 1"

\* C9: an invocation issues at most one bulk-create call, and only with the
\* file decoded and mapped; the batch has one transaction per data record of
\* the file, in the file's order, each with the configured account id and the
\* cleared status "cleared"; a failed call is not followed by another.
C9_SingleOrderedSubmission ==
    \A p \in Procs :
        /\ Len(w_sent[p]) <= 1
        /\ w_sent[p] # <<>> =>
              /\ w_yonder[p] # <<>>
              /\ w_ynab[p] # <<>>
              /\ w_sent[p][1].budget_id = config.ynab_budget_id
              /\ LET txs == w_sent[p][1].transactions
                     recs == w_csv[p][1].records
                 IN  /\ Len(txs) = Len(recs)
                     /\ Len(w_yonder[p][1]) = Len(recs)
                     /\ \A i \in 1..Len(recs) :
                           /\ txs[i].payee_name = recs[i][2]
                           /\ txs[i].account_id = config.ynab_account_id
                           /\ txs[i].cleared = "cleared"

C9_Witness ==
    \E p \in Procs :
        /\ w_reply[p] # <<>> /\ ~w_reply[p][1].ok
        /\ w_pc[p] = "done"
        /\ Len(w_sent[p]) = 1
        /\ w_csv[p][1].records = <<CreditRecord, SampleRecord>>

DistinctIds(txs) ==
    \A i, j \in 1..Len(txs) : i # j => txs[i].import_id # txs[j].import_id

\* C10: when the ledger serves a bulk-create call for a file that has been
\* imported successfully before and whose rows have pairwise distinct import
\* ids, the set of stored transactions does not change, and the invocation
\* reports imported 0 and duplicates the number of rows, in its result and
\* in the text it sends.
C10_IdempotentReimport ==
    [][\A p \in Procs :
          /\ (/\ w_pc[p] = "awaiting"
              /\ w_pc'[p] = "replied"
              /\ w_reply'[p][1].ok
              /\ tracked = w_csv[p]
              /\ DistinctIds(w_ynab[p][1])) =>
                 /\ ynab_ledger' = ynab_ledger
                 /\ w_later'[p]
                 /\ w_reply'[p][1].data.transaction_ids = <<>>
          /\ (w_later'[p] /\ DistinctIds(w_ynab'[p][1]) /\ w_result'[p] # <<>>) =>
                 /\ w_result'[p][1].ok
                 /\ w_result'[p][1].counts[1] =
                       [imported |-> 0, duplicates |-> Len(w_csv'[p][1].records)]
          /\ (w_later'[p] /\ DistinctIds(w_ynab'[p][1]) /\ w_resp'[p] # <<>>) =>
                 BodyText(w_resp'[p][1]) =
                     "Imported new transactions: 0\nSkipped duplicate transactions: "
                         \o Numeral(Len(w_csv'[p][1].records))
      ]_vars

C10_Witness ==
    \E p \in Procs :
        /\ w_later[p]
        /\ Len(w_csv[p][1].records) = 2
        /\ w_resp[p] # <<>>
        /\ w_resp[p][1].status = 200
        /\ ynab_ledger # {}

====
